---- MODULE Spec2Model ----
(***************************************************************************)
(* Model of Home/main.py: the mock Gemini client, the two services built   *)
(* on it (generate_chat_response, generate_rp_scenario) and the            *)
(* demonstration script.                                                   *)
(*                                                                         *)
(* The program is run twice side by side (runs[1], runs[2]) on the same    *)
(* inputs; the two runs differ only in the GEMINI_API_KEY environment      *)
(* variable.  Every action steps both runs with the same operation.        *)
(* Strings are TLA+ strings (sequences of characters): Len, \o and SubSeq  *)
(* act on them as Python's len, + and slicing do.                          *)
(***************************************************************************)
EXTENDS Integers, Sequences, FiniteSets, TLC

VARIABLES runs

vars == <<runs>>

Runs == {1, 2}

\* Number of calls the importing program makes into the module.
MaxCalls == 2

(***************************************************************************)
(* Python values whose type the code branches on (Optional[...], Dict/str) *)
(***************************************************************************)
pyNone == [type |-> "NoneType"]

PyStr(s) == [type |-> "str", value |-> s]

PyList(items) == [type |-> "list", items |-> items]

PyDict(items) == [type |-> "dict", items |-> items]

\* Python truth value testing, as used by `config.tools and ...` (line 48).
Truthy(v) ==
    CASE v.type = "NoneType" -> FALSE
      [] v.type = "list" -> Len(v.items) > 0
      [] v.type = "str" -> Len(v.value) > 0
      [] OTHER -> TRUE

\* Python subscription v[i] (zero-based), with the exceptions it raises.
GetItem(v, i) ==
    IF v.type # "list" THEN [exc |-> "TypeError", val |-> pyNone]
    ELSE IF i + 1 > Len(v.items) THEN [exc |-> "IndexError", val |-> pyNone]
    ELSE [exc |-> "", val |-> v.items[i + 1]]

\* Python slice s[:n] of a string.
TruncLen == 50

\* Mutation: the slice is forgotten and the whole string is written.
Slice_whole(s, n) == s

Slice(s, n) == SubSeq(s, 1, IF Len(s) < n THEN Len(s) ELSE n)

\* Python s * n for a string.
RECURSIVE Repeat(_, _)
Repeat(s, n) == IF n <= 0 THEN "" ELSE s \o Repeat(s, n - 1)

SepWidth == 50

\* dict.get(key, default) for the "sources" key (line 113).
DictGetSources(d, default) ==
    IF "sources" \in DOMAIN d.items THEN d.items.sources ELSE default

(***************************************************************************)
(* MockTool, MockConfig                                                    *)
(***************************************************************************)
MockTool(name) == [name |-> name]

MockConfig(system_instruction, tools) ==
    [system_instruction |-> system_instruction, tools |-> tools]

(***************************************************************************)
(* Standard output: one entry per print() call.                            *)
(***************************************************************************)
print(st, line) == [st EXCEPT !.stdout = Append(@, line)]

\* A function call's outcome: the program state after it, the value
\* returned, and the exception raised ("" when it returned normally).
Return(st, v) == [st |-> st, ret |-> v, exc |-> ""]

Raise(st, e) == [st |-> st, ret |-> pyNone, exc |-> e]

(***************************************************************************)
(* MockClient                                                              *)
(***************************************************************************)
\* Mutation: the constructor insists on a key, as the real client does.
MockClient_init_requiresKey(st, api_key) ==
    IF api_key.type = "NoneType"
    THEN Raise(print(st, "--- Initializing Mock Gemini Client ---"), "ValueError")
    ELSE Return(print(st, "--- Initializing Mock Gemini Client ---"),
                [type |-> "MockClient", attrs |-> {}])

\* __init__ stores nothing on self: the instance has no attributes.
MockClient_init(st, api_key) ==
    Return(print(st, "--- Initializing Mock Gemini Client ---"),
           [type |-> "MockClient", attrs |-> {}])

grounded_text ==
    "FSRPWL (Florida State Roleplay Whitelisted) is a highly structured "
    \o "roleplay community focused on the **Emergency Response: Liberty County** game on Roblox. "
    \o "We emphasize maturity, realism, and adherence to realistic procedures. "
    \o "Here is a table of our core departments:\n\n"
    \o "| Department | Primary Focus |\n"
    \o "|---|---|\n"
    \o "| FHP | Interstate enforcement & traffic |\n"
    \o "| Sheriff's Office | Patrol, investigations, community policing |\n"
    \o "| Fire & Rescue | Medical, fire suppression, technical rescue |\n"
    \o "| Communications | Call taking & unit coordination |\n\n"
    \o "If you'd like to dive deeper into any department, just ask!"

grounded_sources ==
    << [title |-> "FSRPWL Community Guidelines", uri |-> "https://example.com/fsrpwl-rules"],
       [title |-> "Roblox ER:LC Wiki", uri |-> "https://example.com/erlc-wiki"] >>

creative_text ==
    "**Scenario: Armed Robbery in Progress.** You are a Sheriff's Office deputy responding to a 211 (Armed Robbery) at the County Bank branch. "
    \o "Dispatch reports two suspects inside with handguns. Multiple 911 calls confirm that hostages have been taken. "
    \o "Your primary directive is to establish a secure perimeter, contain the suspects, and coordinate with specialized units (SWAT) as they arrive on scene. **Do not engage alone.** Your decisions on prioritizing life safety vs. containment are crucial."

GroundedPayload == PyDict([text |-> grounded_text, sources |-> grounded_sources])

CreativePayload == PyDict([text |-> creative_text, sources |-> <<>>])

\* The three trace lines generate_content prints (lines 44-46).
TraceLines(model, contents, config) ==
    << "\n[MOCK API CALL] Model: " \o model,
       "[MOCK API CALL] Query: '" \o contents \o "'",
       "[MOCK API CALL] System Instruction: '"
           \o Slice(config.system_instruction, TruncLen) \o "...'" >>

\* Mutation: any non-empty tool list selects the grounded branch.
SearchBranch_anyTool(config) == [exc |-> "", val |-> Truthy(config.tools)]

\* Mutation: tools[0] is read without the truth test in front of it.
SearchBranch_unguarded(config) ==
    LET first == GetItem(config.tools, 0)
    IN  IF first.exc # "" THEN [exc |-> first.exc, val |-> FALSE]
        ELSE [exc |-> "", val |-> first.val.name = "google_search"]

\* The branch of line 48: `config.tools and config.tools[0].name == "google_search"`.
\* `and` short-circuits: tools[0] is evaluated only when tools is truthy.
SearchBranch(config) ==
    IF ~Truthy(config.tools) THEN [exc |-> "", val |-> FALSE]
    ELSE LET first == GetItem(config.tools, 0)
         IN  IF first.exc # "" THEN [exc |-> first.exc, val |-> FALSE]
             ELSE [exc |-> "", val |-> first.val.name = "google_search"]

\* The return statement the branch selects (lines 48-78); an exception
\* raised while evaluating the condition propagates to the caller.
SelectPayload(st, br) ==
    IF br.exc # "" THEN Raise(st, br.exc)
    ELSE IF br.val THEN Return(st, GroundedPayload)
    ELSE Return(st, CreativePayload)

\* The three print calls of lines 44-46, in order.
PrintTrace(st, out) == print(print(print(st, out[1]), out[2]), out[3])

\* The record of one generate_content call kept in the run's api_calls log:
\* its arguments, what it wrote to standard output and how it ended.
LogApiCall(st, res, model, contents, config) ==
    [res EXCEPT !.st.api_calls =
         Append(@, [model |-> model, contents |-> contents, config |-> config,
                    out |-> SubSeq(res.st.stdout, Len(st.stdout) + 1,
                                   Len(res.st.stdout)),
                    ret |-> res.ret, exc |-> res.exc])]

\* Mutation: the client remembers that it has been called and answers every
\* later call with the creative payload.
MarkCalled(res) == [res EXCEPT !.st.gemini_client.attrs = {"called"}]

generate_content_remembering(st, model, contents, config) ==
    LogApiCall(st,
               MarkCalled(
                   SelectPayload(PrintTrace(st, TraceLines(model, contents, config)),
                                 IF st.gemini_client.attrs # {}
                                 THEN [exc |-> "", val |-> FALSE]
                                 ELSE SearchBranch(config))),
               model, contents, config)

\* MockClient.generate_content(self, model, contents, config); self is the
\* module-level instance st.gemini_client, which the method neither reads
\* nor writes.
generate_content(st, model, contents, config) ==
    LogApiCall(st,
               SelectPayload(PrintTrace(st, TraceLines(model, contents, config)),
                             SearchBranch(config)),
               model, contents, config)

(***************************************************************************)
(* Core AI functions                                                       *)
(***************************************************************************)
chat_system_prompt ==
    "You are Flordiee AI, a helpful and professional assistant for the FSRPWL "
    \o "community. You are friendly and knowledgeable. You MUST use factual, "
    \o "search-grounded information when possible."

scenario_system_prompt ==
    "You are a creative director for a realistic, mature, whitelist-only roleplay "
    \o "community. Your job is to generate engaging, serious, and realistic scenario prompts "
    \o "for players, suitable for a mature audience."

ModelName == "gemini-2.5-flash"

\* return {"text": api_response["text"], "sources": api_response.get("sources", [])}
ChatResult(api_response) ==
    IF api_response.exc # "" THEN api_response
    ELSE Return(api_response.st,
                PyDict([text |-> api_response.ret.items.text,
                        sources |-> DictGetSources(api_response.ret, <<>>)]))

\* Mutation: the search tool is left out of the configuration.
generate_chat_response_noTool(st, user_query) ==
    ChatResult(generate_content(st, ModelName, user_query,
                                MockConfig(chat_system_prompt, pyNone)))

generate_chat_response(st, user_query) ==
    ChatResult(generate_content(st, ModelName, user_query,
                                MockConfig(chat_system_prompt,
                                           PyList(<<MockTool("google_search")>>))))

\* Mutation: the department is sent as the prompt, without the template.
ScenarioQuery_bareDepartment(department) == department

ScenarioQuery(department) ==
    "Generate a short, realistic roleplay scenario (around 100 words) for the '"
    \o department \o "' department."

\* Mutation: the whole response dictionary is returned.
ScenarioResult_wholeResponse(api_response) == api_response

\* return api_response["text"]
ScenarioResult(api_response) ==
    IF api_response.exc # "" THEN api_response
    ELSE Return(api_response.st, PyStr(api_response.ret.items.text))

\* MockConfig(system_instruction=system_prompt): tools takes its default, None.
generate_rp_scenario(st, department) ==
    ScenarioResult(generate_content(st, ModelName, ScenarioQuery(department),
                                    MockConfig(scenario_system_prompt, pyNone)))

(***************************************************************************)
(* One recorded call of a service: what it was called with, what it        *)
(* returned, the generate_content calls it issued, the module-level client *)
(* before and after it, and how many lines standard output held when it    *)
(* was called and when it returned.                                        *)
(***************************************************************************)
ServiceCall(st, service, arg) ==
    IF service = "generate_chat_response"
    THEN generate_chat_response(st, arg)
    ELSE generate_rp_scenario(st, arg)

LogInvocation(st, service, arg, f) ==
    [f EXCEPT !.st.invocations =
         Append(@, [service |-> service, arg |-> arg,
                    ret |-> f.ret, exc |-> f.exc,
                    api_calls |-> SubSeq(f.st.api_calls, Len(st.api_calls) + 1,
                                         Len(f.st.api_calls)),
                    client_before |-> st.gemini_client,
                    client_after |-> f.st.gemini_client,
                    stdout_at |-> Len(st.stdout),
                    stdout_end |-> Len(f.st.stdout)])]

Invoke(st, service, arg) ==
    LogInvocation(st, service, arg, ServiceCall(st, service, arg))

\* An uncaught exception ends the interpreter with exit status 1.
crash(st) == [st EXCEPT !.pc = "crashed", !.exit_code = 1]

(***************************************************************************)
(* Module body and the demonstration script, one operator per step         *)
(***************************************************************************)
\* os.environ.get('GEMINI_API_KEY'): the variable's value, or None; env_reads
\* counts the reads.
os_environ_get(st) == st.environ

ReadEnviron(st) == [st EXCEPT !.env_reads = @ + 1]

\* gemini_client = MockClient(api_key=os.environ.get('GEMINI_API_KEY'))
BindClient(st, f) ==
    IF f.exc # "" THEN crash(f.st)
    ELSE [f.st EXCEPT !.gemini_client = f.ret,
                      !.pc = IF st.name = "__main__" THEN "demo" ELSE "imported"]

load_module(st) ==
    BindClient(st, MockClient_init(ReadEnviron(st), os_environ_get(st)))

chat_query == "What are the core departments in FSRPWL?"

department_choice == "Sheriff's Office"

demo_header(st) ==
    LET s1 == print(st, "--- FSRPWL AI Tool Demonstration ---")
        s2 == print(s1, "\n[DEMO 1] Chatbot Query: " \o chat_query)
    IN  [s2 EXCEPT !.pc = "chat"]

\* chat_response = generate_chat_response(chat_query)
BindChatResponse(f) ==
    IF f.exc # "" THEN crash(f.st)
    ELSE [f.st EXCEPT !.chat_response = f.ret, !.pc = "print_chat"]

demo_chat(st) == BindChatResponse(Invoke(st, "generate_chat_response", chat_query))

demo_print_chat(st) ==
    LET s1 == print(st, "\n--- AI Chat Response (Grounded) ---")
        s2 == print(s1, st.chat_response.items.text)
    IN  IF Len(st.chat_response.items.sources) > 0
        THEN [print(s2, "\nSources Used:") EXCEPT !.source_i = 0, !.pc = "sources"]
        ELSE [s2 EXCEPT !.pc = "separator"]

\* Mutation: the loop is left after its first iteration.
demo_print_source_break(st) ==
    LET source == st.chat_response.items.sources[st.source_i + 1]
        s1 == print(st, "- " \o source.title \o ": " \o source.uri)
    IN  [s1 EXCEPT !.source_i = st.source_i + 1, !.pc = "separator"]

\* One iteration of `for source in chat_response['sources']`.
demo_print_source(st) ==
    LET sources == st.chat_response.items.sources
        source == sources[st.source_i + 1]
        s1 == print(st, "- " \o source.title \o ": " \o source.uri)
    IN  [s1 EXCEPT !.source_i = st.source_i + 1,
                   !.pc = IF st.source_i + 1 < Len(sources)
                          THEN "sources" ELSE "separator"]

demo_separator(st) ==
    LET s1 == print(st, "\n" \o Repeat("=", SepWidth) \o "\n")
        s2 == print(s1, "[DEMO 2] Scenario Request for: " \o department_choice)
    IN  [s2 EXCEPT !.pc = "scenario"]

\* scenario = generate_rp_scenario(department_choice)
BindScenario(f) ==
    IF f.exc # "" THEN crash(f.st)
    ELSE [f.st EXCEPT !.scenario = f.ret, !.pc = "print_scenario"]

demo_scenario(st) == BindScenario(Invoke(st, "generate_rp_scenario", department_choice))

\* The last statements of the script; the interpreter then exits with 0.
demo_finish(st) ==
    LET s1 == print(st, "\n--- AI Scenario Response (Creative) ---")
        s2 == print(s1, st.scenario.value)
        s3 == print(s2, "\n--- Demonstration Complete ---")
    IN  [s3 EXCEPT !.pc = "done", !.exit_code = 0]

(***************************************************************************)
(* Calls made by a program that imports the module.  An exception raised   *)
(* by a call is caught by the caller and recorded in the logs.             *)
(***************************************************************************)
call_generate_content(st, model, contents, config) ==
    generate_content(st, model, contents, config).st

call_service(st, service, arg) == Invoke(st, service, arg).st

(***************************************************************************)
(* Inputs                                                                  *)
(***************************************************************************)
ModuleNames == {"__main__", "Home.main"}

\* GEMINI_API_KEY in the first and in the second run.
EnvPairs ==
    { <<pyNone, PyStr("key-one")>>,
      <<PyStr("key-one"), PyStr("key-two")>> }

Models == {"gemini-2.5-flash", "gemini-2.5-pro"}

Queries ==
    { chat_query,
      "Which department handles interstate traffic enforcement, and how do I apply to it?" }

Departments == {department_choice, "FHP"}

\* Prompts of direct generate_content calls.
Prompts == {"List the ten-codes used by dispatch."}

SystemInstructions == {"Be brief.", chat_system_prompt}

ToolLists ==
    { pyNone,
      PyList(<<>>),
      PyList(<<MockTool("google_search")>>),
      PyList(<<MockTool("code_execution")>>),
      PyList(<<MockTool("google_search"), MockTool("code_execution")>>),
      PyList(<<MockTool("code_execution"), MockTool("google_search")>>) }

(***************************************************************************)
(* State machine                                                           *)
(***************************************************************************)
InitialState(name, environ) ==
    [environ |-> environ, name |-> name, pc |-> "load", exit_code |-> -1,
     env_reads |-> 0, gemini_client |-> pyNone, stdout |-> <<>>,
     chat_response |-> pyNone, scenario |-> pyNone, source_i |-> 0,
     api_calls |-> <<>>, invocations |-> <<>>]

Init ==
    \E name \in ModuleNames, env \in EnvPairs :
        runs = << InitialState(name, env[1]), InitialState(name, env[2]) >>

\* Both runs take each step, each from where it stands.
SomeRunAt(at) == \E r \in Runs : runs[r].pc = at

MayCall == \A r \in Runs : Len(runs[r].api_calls) < MaxCalls

LoadModule ==
    /\ SomeRunAt("load")
    /\ runs' = [r \in Runs |->
                 IF runs[r].pc = "load" THEN load_module(runs[r]) ELSE runs[r]]

DemoHeader ==
    /\ SomeRunAt("demo")
    /\ runs' = [r \in Runs |->
                 IF runs[r].pc = "demo" THEN demo_header(runs[r]) ELSE runs[r]]

DemoChat ==
    /\ SomeRunAt("chat")
    /\ runs' = [r \in Runs |->
                 IF runs[r].pc = "chat" THEN demo_chat(runs[r]) ELSE runs[r]]

DemoPrintChat ==
    /\ SomeRunAt("print_chat")
    /\ runs' = [r \in Runs |->
                 IF runs[r].pc = "print_chat" THEN demo_print_chat(runs[r]) ELSE runs[r]]

DemoPrintSource ==
    /\ SomeRunAt("sources")
    /\ runs' = [r \in Runs |->
                 IF runs[r].pc = "sources" THEN demo_print_source(runs[r]) ELSE runs[r]]

DemoSeparator ==
    /\ SomeRunAt("separator")
    /\ runs' = [r \in Runs |->
                 IF runs[r].pc = "separator" THEN demo_separator(runs[r]) ELSE runs[r]]

DemoScenario ==
    /\ SomeRunAt("scenario")
    /\ runs' = [r \in Runs |->
                 IF runs[r].pc = "scenario" THEN demo_scenario(runs[r]) ELSE runs[r]]

DemoFinish ==
    /\ SomeRunAt("print_scenario")
    /\ runs' = [r \in Runs |->
                 IF runs[r].pc = "print_scenario" THEN demo_finish(runs[r]) ELSE runs[r]]

CallGenerateContent ==
    /\ MayCall
    /\ SomeRunAt("imported")
    /\ \E model \in Models, contents \in Prompts,
          si \in SystemInstructions, tools \in ToolLists :
          runs' = [r \in Runs |->
                     IF runs[r].pc = "imported"
                     THEN call_generate_content(runs[r], model, contents, MockConfig(si, tools))
                     ELSE runs[r]]

CallGenerateChatResponse ==
    /\ MayCall
    /\ SomeRunAt("imported")
    /\ \E q \in Queries :
          runs' = [r \in Runs |->
                     IF runs[r].pc = "imported"
                     THEN call_service(runs[r], "generate_chat_response", q)
                     ELSE runs[r]]

CallGenerateRpScenario ==
    /\ MayCall
    /\ SomeRunAt("imported")
    /\ \E d \in Departments :
          runs' = [r \in Runs |->
                     IF runs[r].pc = "imported"
                     THEN call_service(runs[r], "generate_rp_scenario", d)
                     ELSE runs[r]]

Next ==
    \/ LoadModule
    \/ DemoHeader
    \/ DemoChat
    \/ DemoPrintChat
    \/ DemoPrintSource
    \/ DemoSeparator
    \/ DemoScenario
    \/ DemoFinish
    \/ CallGenerateContent
    \/ CallGenerateChatResponse
    \/ CallGenerateRpScenario

Spec == Init /\ [][Next]_vars

\* The interpreter keeps executing statements until the script ends.
LiveSpec == Spec /\ WF_vars(Next)

(***************************************************************************)
(* Properties                                                              *)
(***************************************************************************)
Range(seq) == {seq[i] : i \in DOMAIN seq}

\* Every generate_content call and every service call made so far.
AllApiCalls == UNION {Range(runs[r].api_calls) : r \in Runs}

AllInvocations == UNION {Range(runs[r].invocations) : r \in Runs}

Contains(s, sub) ==
    \E i \in 1..(Len(s) - Len(sub) + 1) : SubSeq(s, i, i + Len(sub) - 1) = sub

StartsWith(s, prefix) ==
    Len(s) >= Len(prefix) /\ SubSeq(s, 1, Len(prefix)) = prefix

\* tools holds a flag of this name at some position.
HasFlag(tools, name) ==
    /\ tools.type = "list"
    /\ \E k \in 1..Len(tools.items) : tools.items[k].name = name

NoFlags(tools) ==
    tools.type = "NoneType" \/ (tools.type = "list" /\ Len(tools.items) = 0)

FixedSources ==
    << [title |-> "FSRPWL Community Guidelines", uri |-> "https://example.com/fsrpwl-rules"],
       [title |-> "Roblox ER:LC Wiki", uri |-> "https://example.com/erlc-wiki"] >>

IsGrounded(payload) ==
    /\ payload.type = "dict"
    /\ Contains(payload.items.text, "FHP")
    /\ payload.items.sources = FixedSources

IsCreative(payload) ==
    /\ payload.type = "dict"
    /\ Contains(payload.items.text, "Armed Robbery")
    /\ payload.items.sources = <<>>

\* C1: every generate_content call returns the grounded payload (text with
\* "FHP", the two fixed sources) if its config.tools holds a flag named
\* "google_search" at any position, and the creative payload (text with
\* "Armed Robbery", no sources) otherwise.
C1_FlagAtAnyPosition ==
    \A c \in AllApiCalls :
        /\ c.exc = ""
        /\ IF HasFlag(c.config.tools, "google_search")
           THEN IsGrounded(c.ret)
           ELSE IsCreative(c.ret)

\* C2: every generate_chat_response call returns a payload whose sources are
\* exactly the two fixed entries, in order, each with a non-empty title and
\* uri.
C2_ChatSources ==
    \A v \in AllInvocations :
        v.service = "generate_chat_response" =>
            /\ v.exc = ""
            /\ v.ret.type = "dict"
            /\ Len(v.ret.items.sources) = 2
            /\ \A k \in 1..Len(v.ret.items.sources) :
                   /\ Len(v.ret.items.sources[k].title) > 0
                   /\ Len(v.ret.items.sources[k].uri) > 0
            /\ v.ret.items.sources = FixedSources

C2_Witness ==
    \E v \in AllInvocations :
        /\ v.service = "generate_chat_response"
        /\ v.arg # chat_query
        /\ v.exc = ""
        /\ Len(v.ret.items.sources) = 2

\* C3: every generate_rp_scenario call returns a string alone (no record with
\* a sources field), non-empty, starting with
\* "**Scenario: Armed Robbery in Progress.**".
C3_ScenarioText ==
    \A v \in AllInvocations :
        v.service = "generate_rp_scenario" =>
            /\ v.exc = ""
            /\ v.ret.type = "str"
            /\ Len(v.ret.value) > 0
            /\ StartsWith(v.ret.value, "**Scenario: Armed Robbery in Progress.**")

C3_Witness ==
    \E v \in AllInvocations :
        /\ v.service = "generate_rp_scenario"
        /\ v.arg # department_choice
        /\ v.exc = ""
        /\ v.ret.type = "str"

C5_PayloadInvariant ==
    \A c \in AllApiCalls :
        c.exc = "" =>
            /\ Len(c.ret.items.text) > 0
            /\ Len(c.ret.items.sources) > 0 => HasFlag(c.config.tools, "google_search")

C5_Witness ==
    \E c, d \in AllApiCalls :
        /\ c.exc = "" /\ Len(c.ret.items.sources) > 0
        /\ d.exc = "" /\ Len(d.ret.items.sources) = 0
        /\ d.config.tools.type = "list" /\ Len(d.config.tools.items) > 0

\* C6: no call raises: generate_content completes with a payload whether
\* config.tools is None, an empty list or a non-empty list, and so do the two
\* services, and the script never ends on an exception.
C6_Total ==
    /\ \A c \in AllApiCalls : c.exc = "" /\ c.ret.type = "dict"
    /\ \A v \in AllInvocations : v.exc = ""
    /\ \A r \in Runs : runs[r].pc # "crashed"

C6_Witness ==
    \E c, d \in AllApiCalls :
        /\ c.config.tools.type = "NoneType" /\ c.exc = ""
        /\ d.config.tools = PyList(<<>>) /\ d.exc = ""

\* C7: a generate_chat_response call issues exactly one generate_content call,
\* with the query unchanged, the assistant system instruction and exactly one
\* tool flag, "google_search", and returns its text and sources unchanged; a
\* generate_rp_scenario call issues exactly one, with the department
\* interpolated into the fixed prompt, the creative-director system
\* instruction and no tool flags, and returns its text alone.
C7_Delegation ==
    \A v \in AllInvocations :
        /\ Len(v.api_calls) = 1
        /\ LET c == v.api_calls[1]
           IN  IF v.service = "generate_chat_response"
               THEN /\ c.contents = v.arg
                    /\ StartsWith(c.config.system_instruction, "You are Flordiee AI")
                    /\ c.config.tools = PyList(<<[name |-> "google_search"]>>)
                    /\ v.ret = PyDict([text |-> c.ret.items.text,
                                       sources |-> c.ret.items.sources])
               ELSE /\ c.contents =
                           "Generate a short, realistic roleplay scenario (around 100 words) for the '"
                           \o v.arg \o "' department."
                    /\ StartsWith(c.config.system_instruction, "You are a creative director")
                    /\ NoFlags(c.config.tools)
                    /\ v.ret = PyStr(c.ret.items.text)
        /\ \A w \in AllInvocations :
               w.service = v.service =>
                   w.api_calls[1].config.system_instruction
                       = v.api_calls[1].config.system_instruction

C7_Witness ==
    \E v, w \in AllInvocations :
        /\ v.service = "generate_chat_response" /\ v.arg # chat_query
        /\ w.service = "generate_rp_scenario" /\ w.arg # department_choice
        /\ Len(v.api_calls) = 1 /\ Len(w.api_calls) = 1

\* The longest prefix of s of at most n characters.
PrefixOf(s, n) == IF Len(s) <= n THEN s ELSE SubSeq(s, 1, n)

\* What a call writes and returns apart from the prompt line: three lines,
\* the first naming the model, the third the system instruction cut to its
\* first TruncLen characters; and the payload depends on the tools alone.
TraceAround(c) ==
    /\ Len(c.out) = 3
    /\ c.out[1] = "\n[MOCK API CALL] Model: " \o c.model
    /\ StartsWith(c.out[2], "[MOCK API CALL] Query: '")
    /\ c.out[3] = "[MOCK API CALL] System Instruction: '"
                      \o PrefixOf(c.config.system_instruction, TruncLen) \o "...'"
    /\ \A d \in AllApiCalls : d.config.tools = c.config.tools => d.ret = c.ret

\* C8 as stated: each call writes the model line, the prompt line and the
\* system-instruction line in this order, the prompt and the system
\* instruction each cut to a bounded prefix (the TruncLen characters the code
\* uses), and the payload does not depend on what was written.
C8_PromptCut ==
    \A c \in AllApiCalls :
        /\ TraceAround(c)
        /\ Contains(c.out[2], PrefixOf(c.contents, TruncLen))
        /\ Len(c.out[2]) <= Len("[MOCK API CALL] Query: '...'") + TruncLen

\* C8 amended: as above, but the prompt is written in full between quotes;
\* only the system instruction is cut, to its first TruncLen characters
\* followed by "...".
C8_TraceLines ==
    \A c \in AllApiCalls :
        /\ TraceAround(c)
        /\ c.out[2] = "[MOCK API CALL] Query: '" \o c.contents \o "'"
        /\ Len(c.out[3]) <= Len("[MOCK API CALL] System Instruction: '...'") + TruncLen

C8_Witness ==
    \E c \in AllApiCalls :
        /\ Len(c.contents) > TruncLen
        /\ Len(c.config.system_instruction) > TruncLen
        /\ Contains(c.out[2], c.contents)
        /\ ~Contains(c.out[3], c.config.system_instruction)

IsScript(r) == runs[r].name = "__main__"

\* The script has ended with status 0 having called the chat service once
\* with the demo query, printed its text and then its sources one per line in
\* order, and only then called the scenario service once with the demo
\* department and printed its text.
DemoDone(r) ==
    LET st == runs[r]
        out == st.stdout
    IN  /\ st.pc = "done"
        /\ st.exit_code = 0
        /\ Len(st.invocations) = 2
        /\ LET chat == st.invocations[1]
               scen == st.invocations[2]
               srcs == chat.ret.items.sources
           IN  /\ chat.service = "generate_chat_response"
               /\ chat.arg = "What are the core departments in FSRPWL?"
               /\ scen.service = "generate_rp_scenario"
               /\ scen.arg = "Sheriff's Office"
               /\ \E t, p \in DOMAIN out :
                      /\ chat.stdout_end < t
                      /\ out[t] = chat.ret.items.text
                      /\ t < p
                      /\ \A k \in 1..Len(srcs) :
                             /\ p + k - 1 \in DOMAIN out
                             /\ out[p + k - 1] = "- " \o srcs[k].title \o ": " \o srcs[k].uri
                      /\ p + Len(srcs) - 1 <= scen.stdout_at
               /\ \E u \in DOMAIN out :
                      /\ scen.stdout_end < u
                      /\ out[u] = scen.ret.value

\* While the script runs, neither service has been called twice.
CalledAtMostOnce(r) ==
    \A i, j \in DOMAIN runs[r].invocations :
        runs[r].invocations[i].service = runs[r].invocations[j].service => i = j

\* C9: a run of the script always ends normally (exit status 0) after exactly
\* one chat call with the demo query, the printing of its text and of its
\* sources in order, and then exactly one scenario call with "Sheriff's
\* Office" and the printing of its text; neither service is called twice.
C9_DemoRun ==
    /\ [](\A r \in Runs : IsScript(r) => CalledAtMostOnce(r))
    /\ (\E r \in Runs : IsScript(r)) ~> (\A r \in Runs : IsScript(r) /\ DemoDone(r))

C9_Witness ==
    \E r \in Runs :
        /\ IsScript(r)
        /\ runs[r].pc = "done"
        /\ Len(runs[r].stdout) > 0

\* What a run shows apart from the environment it was started in.
Observable(st) == [st EXCEPT !.environ = pyNone]

\* C10: the API key variable is read once, when the module is loaded, and two
\* runs that differ only in it construct the client without failure and agree
\* on every result and on everything printed.
C10_ApiKeyIrrelevant ==
    /\ runs[1].environ # runs[2].environ
    /\ Observable(runs[1]) = Observable(runs[2])
    /\ \A r \in Runs :
           /\ runs[r].pc # "crashed"
           /\ runs[r].pc # "load" =>
                  /\ runs[r].env_reads = 1
                  /\ runs[r].gemini_client.type = "MockClient"

C10_Witness ==
    /\ runs[1].environ.type = "NoneType"
    /\ runs[2].environ.type = "str"
    /\ \E v \in Range(runs[1].invocations) : v.exc = ""
    /\ \E c \in Range(runs[2].api_calls) : c.exc = ""

====
